---- MODULE Spec2Model ----
(***************************************************************************)
(* Model of dg1d/euler/euler.py: a 1-D discontinuous Galerkin solver with  *)
(* SSPRK3 time stepping.  The script is one sequential program; pc is its  *)
(* position.  Python's 0-based index i is the 1-based index i+1 here.      *)
(*                                                                         *)
(* Floating point numbers are modelled as exact numbers of the field       *)
(* Q(sqrt 3): the record [a, b, d] stands for (a + b*sqrt(3))/d.  sqrt(3)  *)
(* is needed because the 2-point Gauss nodes are +-1/sqrt(3) and the       *)
(* degree-1 basis function is sqrt(3)*x.                                   *)
(***************************************************************************)
EXTENDS Integers, Sequences, FiniteSets, TLC

VARIABLES args, sod, pc, k, cfl, nc, nd, dx,
          rho0, rho1, mom0, mom1, ene0, ene1, resr, resm, rese,
          it, t, dt, Tf, lam, rk, f, nasm, zeroRes, limiterCalls

vars == <<args, sod, pc, k, cfl, nc, nd, dx,
          rho0, rho1, mom0, mom1, ene0, ene1, resr, resm, rese,
          it, t, dt, Tf, lam, rk, f, nasm, zeroRes, limiterCalls>>

(***************************************************************************)
(* Bounds of the model.                                                    *)
(***************************************************************************)
\* the loop body is entered at most MaxSteps times
MaxSteps == 3

(***************************************************************************)
(* Exact arithmetic in Q(sqrt 3).                                          *)
(***************************************************************************)
\* The arithmetic is written as functions: a function is applied to the
\* value of its argument, so that an operand is evaluated once.
Gcd[m \in Nat, n \in Nat] == IF n = 0 THEN m ELSE Gcd[n, m % n]

Abs(n) == IF n < 0 THEN -n ELSE n

\* (a + b*sqrt(3))/d in lowest terms with a positive denominator
NormF[a \in Int, b \in Int, d \in Int] ==
    LET g == Gcd[Gcd[Abs(a), Abs(b)], Abs(d)]
        s == IF d < 0 THEN -1 ELSE 1
    IN  [a |-> s * (a \div g), b |-> s * (b \div g), d |-> Abs(d) \div g]

Norm(a, b, d) == NormF[a, b, d]

Rat(n, d) == Norm(n, 0, d)
Zero == Rat(0, 1)
One == Rat(1, 1)
Half == Rat(1, 2)
Two == Rat(2, 1)
Sqrt3 == Norm(0, 1, 1)

Q == [a : Int, b : Int, d : Int]

QAddF[x \in Q, y \in Q] ==
    LET g == Gcd[x.d, y.d]
        p == y.d \div g
        q == x.d \div g
    IN  Norm(x.a * p + y.a * q, x.b * p + y.b * q, x.d * p)

QAdd(x, y) == QAddF[x, y]

QNeg(x) == [a |-> -x.a, b |-> -x.b, d |-> x.d]

QSub(x, y) == QAdd(x, QNeg(y))

QMulF[x \in Q, y \in Q] ==
    LET g1 == Gcd[Gcd[Abs(x.a), Abs(x.b)], y.d]
        g2 == Gcd[Gcd[Abs(y.a), Abs(y.b)], x.d]
        xa == x.a \div g1
        xb == x.b \div g1
        ya == y.a \div g2
        yb == y.b \div g2
    IN  Norm(xa * ya + 3 * xb * yb, xa * yb + xb * ya,
             (x.d \div g2) * (y.d \div g1))

QMul(x, y) == QMulF[x, y]

\* 1/y = d*(a - b*sqrt(3)) / (a*a - 3*b*b)
QInvF[y \in Q] == Norm(y.d * y.a, -(y.d * y.b), y.a * y.a - 3 * y.b * y.b)

QDiv(x, y) == QMul(x, QInvF[y])

\* the sign of a + b*sqrt(3)
QSignF[x \in Q] ==
    IF x.a = 0 /\ x.b = 0 THEN 0
    ELSE IF x.a >= 0 /\ x.b >= 0 THEN 1
    ELSE IF x.a <= 0 /\ x.b <= 0 THEN -1
    ELSE IF x.a > 0 THEN (IF x.a * x.a > 3 * x.b * x.b THEN 1 ELSE -1)
    ELSE (IF 3 * x.b * x.b > x.a * x.a THEN 1 ELSE -1)

QSign(x) == QSignF[x]

QLess(x, y) == QSign(QSub(x, y)) < 0
QLeq(x, y) == QSign(QSub(x, y)) <= 0
QAbs(x) == IF QSign(x) < 0 THEN QNeg(x) ELSE x
QMax(x, y) == IF QLess(x, y) THEN y ELSE x

\* a.dot(b) for two vectors of the same length
RECURSIVE DotUpTo(_, _, _)
DotUpTo(u, v, n) ==
    IF n = 0 THEN Zero ELSE QAdd(DotUpTo(u, v, n - 1), QMul(u[n], v[n]))

Dot(u, v) == DotUpTo(u, v, Len(u))

\* np.zeros((rows, cols))
Zeros(rows, cols) == [i \in 1..rows |-> [j \in 1..cols |-> Zero]]

(***************************************************************************)
(* Command line (lines 14-26).                                             *)
(***************************************************************************)
Degrees == {-1, 0, 1}
Cells == -1..3
CflArgs == {Zero, One}
TfArgs == {Rat(-1, 1), Zero, Rat(1, 4), Rat(1, 3), One}
LimitArgs == {"no", "yes"}

(***************************************************************************)
(* The module sod (imported at line 30): domain, initial condition, flux,  *)
(* numerical flux and wave speed.  The variable sod selects one member of  *)
(* a small family of implementations of that interface.                    *)
(***************************************************************************)
InitialConditions == {"riemann", "constant"}
NumFluxes == {"zero", "rusanov", "biased"}

xmin == Zero
xmax == One

\* (density, momentum, energy) at the physical coordinate x
initial_condition(x) ==
    IF sod.ic = "riemann" /\ ~QLess(x, Half)
    THEN <<Rat(1, 8), Zero, Rat(1, 4)>>
    ELSE <<One, Zero, Rat(5, 2)>>

\* physical flux of the state u = <<rho, mom, ene>>
flux(u) ==
    IF sod.numflux = "zero" THEN <<Zero, Zero, Zero>>
    ELSE <<u[2], u[1], u[2]>>

\* two-point flux; "rusanov" is consistent, "biased" is not
numflux(ul, ur) ==
    LET fl == flux(ul)
        fr == flux(ur)
        rus == [c \in 1..3 |->
                  QSub(QMul(Half, QAdd(fl[c], fr[c])),
                       QMul(Half, QSub(ur[c], ul[c])))]
    IN  IF sod.numflux = "zero" THEN <<Zero, Zero, Zero>>
        ELSE IF sod.numflux = "rusanov" THEN rus
        ELSE [c \in 1..3 |-> QAdd(rus[c], One)]

RECURSIVE MaxAbsMom(_, _)
MaxAbsMom(mom, n) ==
    IF n = 0 THEN Zero ELSE QMax(MaxAbsMom(mom, n - 1), QAbs(mom[n][1]))

\* strictly positive, depends on the state
max_speed(rho, mom, ene) == QAdd(One, MaxAbsMom(mom, Len(mom)))

(***************************************************************************)
(* The module basis (imported at line 4) and the Gauss rule (line 44).     *)
(***************************************************************************)
shape_value(j, x) == IF j = 0 THEN One ELSE QMul(Sqrt3, x)
shape_grad(j, x) == IF j = 0 THEN Zero ELSE Sqrt3

\* np.polynomial.legendre.leggauss(n): nodes and weights
leggauss(n) ==
    IF n = 1 THEN [x |-> <<Zero>>, w |-> <<Two>>]
    ELSE [x |-> <<Norm(0, -1, 3), Norm(0, 1, 3)>>, w |-> <<One, One>>]

xg == leggauss(k + 1).x
wg == leggauss(k + 1).w

Vf == [i \in 1..nd |-> [j \in 1..nd |-> shape_value(j - 1, xg[i])]]
Vg == [i \in 1..nd |-> [j \in 1..nd |-> shape_grad(j - 1, xg[i])]]

nu == IF 2 > k + 1 THEN 2 ELSE k + 1
\* np.linspace(-1, +1, nu) for nu = 2
xu == <<Rat(-1, 1), One>>
Vu == [i \in 1..nu |-> [j \in 1..(k + 1) |-> shape_value(j - 1, xu[i])]]

\* Vf[:,j]*wg and Vg[:,j]*wg (j is 1-based)
VfColW(j) == [g \in 1..nd |-> QMul(Vf[g][j], wg[g])]
VgColW(j) == [g \in 1..nd |-> QMul(Vg[g][j], wg[g])]

(***************************************************************************)
(* The program.                                                            *)
(***************************************************************************)
\* With the unit wave speed of the initial conditions the first step size is
\* cfl/((2k+1)*nc): the run of a valid configuration needs at most MaxSteps
\* steps.  Configurations with cfl <= 0 never leave the loop.
FitsMaxSteps(a) ==
    \/ a.degree < 0
    \/ a.ncell <= 0
    \/ QSign(a.cfl) <= 0
    \/ QLeq(QMul(a.Tf, Rat((2 * a.degree + 1) * a.ncell, 1)),
            QMul(Rat(MaxSteps, 1), a.cfl))

NoArgs == [degree |-> 0, ncell |-> 0, cfl |-> Zero, Tf |-> Zero,
           limit |-> "no"]

Init ==
    /\ args = NoArgs
    /\ sod = [ic |-> "riemann", numflux |-> "zero"]
    /\ pc = "parse"
    /\ k = 0 /\ cfl = Zero /\ nc = 0 /\ nd = 0 /\ dx = Zero
    /\ rho0 = <<>> /\ rho1 = <<>> /\ mom0 = <<>> /\ mom1 = <<>>
    /\ ene0 = <<>> /\ ene1 = <<>>
    /\ resr = <<>> /\ resm = <<>> /\ rese = <<>>
    /\ it = 0 /\ t = Zero /\ dt = Zero /\ Tf = Zero /\ lam = Zero
    /\ rk = 0 /\ f = <<>> /\ nasm = 0 /\ zeroRes = TRUE /\ limiterCalls = 0

\* line 26 (the command line) and line 30 (the imported module sod)
ParseArgs ==
    /\ pc = "parse"
    /\ args' \in [degree : Degrees, ncell : Cells, cfl : CflArgs,
                  Tf : TfArgs, limit : LimitArgs]
    /\ FitsMaxSteps(args')
    /\ sod' \in [ic : InitialConditions, numflux : NumFluxes]
    /\ pc' = "start"
    /\ UNCHANGED <<k, cfl, nc, nd, dx, rho0, rho1, mom0, mom1, ene0, ene1,
                   resr, resm, rese, it, t, dt, Tf, lam, rk, f, nasm,
                   zeroRes, limiterCalls>>

\* lines 35-61 and 96-105; an exception ends the program
ConfigFails ==
    \/ args.ncell = 0     \* line 40: division by zero
    \/ args.degree < 0    \* line 44: leggauss rejects a rule of 0 points
    \/ args.ncell < 0     \* line 97: negative dimension

Configure ==
    /\ pc = "start"
    /\ IF ConfigFails
       THEN /\ pc' = "error"
            /\ UNCHANGED <<k, cfl, nc, nd, dx, rho0, rho1, mom0, mom1,
                           ene0, ene1, resr, resm, rese>>
       ELSE /\ pc' = "project"
            /\ k' = args.degree
            /\ cfl' = QDiv(args.cfl, Rat(2 * args.degree + 1, 1))
            /\ nc' = args.ncell
            /\ nd' = args.degree + 1
            /\ dx' = QDiv(QSub(xmax, xmin), Rat(args.ncell, 1))
            /\ rho0' = Zeros(args.ncell, args.degree + 1)
            /\ rho1' = Zeros(args.ncell, args.degree + 1)
            /\ mom0' = Zeros(args.ncell, args.degree + 1)
            /\ mom1' = Zeros(args.ncell, args.degree + 1)
            /\ ene0' = Zeros(args.ncell, args.degree + 1)
            /\ ene1' = Zeros(args.ncell, args.degree + 1)
            /\ resr' = Zeros(args.ncell, args.degree + 1)
            /\ resm' = Zeros(args.ncell, args.degree + 1)
            /\ rese' = Zeros(args.ncell, args.degree + 1)
    /\ UNCHANGED <<args, sod, it, t, dt, Tf, lam, rk, f, nasm, zeroRes,
                   limiterCalls>>

\* xc = xmin + i*dx + 0.5*dx for the 1-based cell i
CellCenter(i) ==
    QAdd(QAdd(xmin, QMul(Rat(i - 1, 1), dx)), QMul(Half, dx))

\* lines 109-115: modal coefficient j (1-based) of field c in cell i
Projection(i, j, c) ==
    LET vals == [g \in 1..nd |->
                   initial_condition(
                       QAdd(CellCenter(i), QMul(QMul(Half, dx), xg[g])))[c]]
    IN  QMul(Half, Dot(vals, VfColW(j)))

Project ==
    /\ pc = "project"
    /\ rho1' = [i \in 1..nc |-> [j \in 1..nd |-> Projection(i, j, 1)]]
    /\ mom1' = [i \in 1..nc |-> [j \in 1..nd |-> Projection(i, j, 2)]]
    /\ ene1' = [i \in 1..nc |-> [j \in 1..nd |-> Projection(i, j, 3)]]
    /\ pc' = "inittime"
    /\ UNCHANGED <<args, sod, k, cfl, nc, nd, dx, rho0, mom0, ene0,
                   resr, resm, rese, it, t, dt, Tf, lam, rk, f, nasm,
                   zeroRes, limiterCalls>>

\* lines 123-126
InitTime ==
    /\ pc = "inittime"
    /\ it' = 0
    /\ t' = Zero
    /\ dt' = QDiv(QMul(cfl, dx), max_speed(rho1, mom1, ene1))
    /\ Tf' = args.Tf
    /\ lam' = QDiv(dt', dx)
    /\ pc' = "loop"
    /\ UNCHANGED <<args, sod, k, cfl, nc, nd, dx, rho0, rho1, mom0, mom1,
                   ene0, ene1, resr, resm, rese, rk, f, nasm, zeroRes,
                   limiterCalls>>

\* a loop without lines 128-130: the last step is not shortened
ClipNever(time, step) == step

\* lines 128-130: the step size of the step that starts at time t
Clip(time, step) ==
    IF QLess(Tf, QAdd(time, step)) THEN QSub(Tf, time) ELSE step

\* lines 127-133, rk = 0 of line 134
StepStart ==
    /\ pc = "loop"
    /\ QLess(t, Tf)
    /\ it < MaxSteps
    /\ dt' = Clip(t, dt)
    /\ lam' = IF QLess(Tf, QAdd(t, dt)) THEN QDiv(dt', dx) ELSE lam
    /\ rho0' = rho1
    /\ mom0' = mom1
    /\ ene0' = ene1
    /\ rk' = 0
    /\ nasm' = 0
    /\ zeroRes' = TRUE
    /\ pc' = "assemble"
    /\ UNCHANGED <<args, sod, k, cfl, nc, nd, dx, rho1, mom1, ene1,
                   resr, resm, rese, it, t, Tf, f, limiterCalls>>

\* line 127 when the condition is false, line 193
LoopExit ==
    /\ pc = "loop"
    /\ ~QLess(t, Tf)
    /\ pc' = "done"
    /\ UNCHANGED <<args, sod, k, cfl, nc, nd, dx, rho0, rho1, mom0, mom1,
                   ene0, ene1, resr, resm, rese, it, t, dt, Tf, lam, rk, f,
                   nasm, zeroRes, limiterCalls>>

(***************************************************************************)
(* Residual assembly, lines 136-184.                                       *)
(***************************************************************************)
\* Vf.dot(u[i,:]) at Gauss point g, for the three fields (lines 139-141)
GaussState(i, g) ==
    <<Dot(Vf[g], rho1[i]), Dot(Vf[g], mom1[i]), Dot(Vf[g], ene1[i])>>

\* lines 142-146: -flux.dot(Vg[:,j]*wg)
VolumeTerm(i, j, c) ==
    QNeg(Dot([g \in 1..nd |-> flux(GaussState(i, g))[c]], VgColW(j)))

\* u[i,:].dot(Vu[row,:]) for the three fields
EdgeState(i, row) ==
    <<Dot(rho1[i], Vu[row]), Dot(mom1[i], Vu[row]), Dot(ene1[i], Vu[row])>>

\* lines 148-154
FirstFaceFlux == numflux(EdgeState(1, 1), EdgeState(1, 1))

\* lines 161-167 for the face between the cells m and m+1
InteriorFaceFlux(m) == numflux(EdgeState(m, nu), EdgeState(m + 1, 1))

\* lines 175-181: the row Vu[0,:] is the one the code reads
LastFaceFlux == numflux(EdgeState(nc, 1), EdgeState(nc, 1))

\* the flux of face m, m = 1 (first) .. nc+1 (last)
FaceFlux(m) ==
    IF m = 1 THEN FirstFaceFlux
    ELSE IF m = nc + 1 THEN LastFaceFlux
    ELSE InteriorFaceFlux(m - 1)

\* lines 155-157: res[0,:] -= f*Vu[0,:]
FirstFaceTerm(fl, j, c) == QNeg(QMul(fl[c], Vu[1][j]))

\* lines 168, 170, 172: res[i-1,:] += f*Vu[-1,:]
LeftCellTerm(fl, j, c) == QMul(fl[c], Vu[nu][j])

\* lines 169, 171, 173 with += for -=
RightCellTermAdded(fl, j, c) == QMul(fl[c], Vu[1][j])

\* lines 169, 171, 173: res[i,:] -= f*Vu[0,:]
RightCellTerm(fl, j, c) == QNeg(QMul(fl[c], Vu[1][j]))

\* lines 182-184 with -= for +=
LastFaceTermSubtracted(fl, j, c) == QNeg(QMul(fl[c], Vu[1][j]))

\* lines 182-184: res[-1,:] += f*Vu[0,:]
LastFaceTerm(fl, j, c) == QMul(fl[c], Vu[1][j])

\* the residual of field c in cell i, mode j after lines 136-184
Residual(i, j, c) ==
    LET vol == VolumeTerm(i, j, c)
        lft == IF i = 1 THEN FirstFaceTerm(FaceFlux(1), j, c)
               ELSE RightCellTerm(FaceFlux(i), j, c)
        rgt == IF i = nc THEN LastFaceTerm(FaceFlux(nc + 1), j, c)
               ELSE LeftCellTerm(FaceFlux(i + 1), j, c)
    IN  QAdd(QAdd(vol, lft), rgt)

Assembled(c) == [i \in 1..nc |-> [j \in 1..nd |-> Residual(i, j, c)]]

AllZero(u) == \A i \in 1..Len(u) : \A j \in 1..Len(u[i]) : u[i][j] = Zero

Assemble ==
    /\ pc = "assemble"
    /\ resr' = Assembled(1)
    /\ resm' = Assembled(2)
    /\ rese' = Assembled(3)
    /\ f' = [m \in 1..(nc + 1) |-> FaceFlux(m)]
    /\ nasm' = nasm + 1
    /\ zeroRes' = (zeroRes /\ AllZero(resr') /\ AllZero(resm')
                           /\ AllZero(rese'))
    /\ pc' = "update"
    /\ UNCHANGED <<args, sod, k, cfl, nc, nd, dx, rho0, rho1, mom0, mom1,
                   ene0, ene1, it, t, dt, Tf, lam, rk, limiterCalls>>

(***************************************************************************)
(* SSPRK3, lines 7-9 and 186-188.                                          *)
(***************************************************************************)
\* line 9 with weights that do not add up to one with ark
brkCopied == <<One, Rat(1, 4), Rat(1, 3)>>

\* line 8
ark == <<Zero, Rat(3, 4), Rat(1, 3)>>

\* line 9
brk == [s \in 1..3 |-> QSub(One, ark[s])]

\* lines 186-188 with the working state in the place of u0
StageUpdateNoU0(u0, u1, res) ==
    [i \in 1..nc |-> [j \in 1..nd |->
        QAdd(QMul(ark[rk + 1], u1[i][j]),
             QMul(brk[rk + 1], QSub(u1[i][j], QMul(lam, res[i][j]))))]]

\* ark[rk]*u0 + brk[rk]*(u1 - lam*res), elementwise
StageUpdate(u0, u1, res) ==
    [i \in 1..nc |-> [j \in 1..nd |->
        QAdd(QMul(ark[rk + 1], u0[i][j]),
             QMul(brk[rk + 1], QSub(u1[i][j], QMul(lam, res[i][j]))))]]

RKStage ==
    /\ pc = "update"
    /\ rho1' = StageUpdate(rho0, rho1, resr)
    /\ mom1' = StageUpdate(mom0, mom1, resm)
    /\ ene1' = StageUpdate(ene0, ene1, rese)
    /\ rk' = rk + 1
    /\ pc' = IF rk + 1 < 3 THEN "assemble" ELSE "endstep"
    /\ UNCHANGED <<args, sod, k, cfl, nc, nd, dx, rho0, mom0, ene0,
                   resr, resm, rese, it, t, dt, Tf, lam, f, nasm, zeroRes,
                   limiterCalls>>

\* line 189
EndStep ==
    /\ pc = "endstep"
    /\ t' = QAdd(t, dt)
    /\ it' = it + 1
    /\ pc' = "loop"
    /\ UNCHANGED <<args, sod, k, cfl, nc, nd, dx, rho0, rho1, mom0, mom1,
                   ene0, ene1, resr, resm, rese, dt, Tf, lam, rk, f, nasm,
                   zeroRes, limiterCalls>>

Next ==
    \/ ParseArgs
    \/ Configure
    \/ Project
    \/ InitTime
    \/ StepStart
    \/ LoopExit
    \/ Assemble
    \/ RKStage
    \/ EndStep

Spec == Init /\ [][Next]_vars

\* The control flow of Next: the position the program moves to.  The
\* interpreter always executes the statement at pc, which is weak fairness
\* of the steps of Next; all of them change pc as Control says.
Control ==
    \/ pc = "parse" /\ pc' = "start"
    \/ pc = "start" /\ pc' = IF ConfigFails THEN "error" ELSE "project"
    \/ pc = "project" /\ pc' = "inittime"
    \/ pc = "inittime" /\ pc' = "loop"
    \/ pc = "loop" /\ QLess(t, Tf) /\ it < MaxSteps /\ pc' = "assemble"
    \/ pc = "loop" /\ ~QLess(t, Tf) /\ pc' = "done"
    \/ pc = "assemble" /\ pc' = "update"
    \/ pc = "update" /\ pc' = IF rk + 1 < 3 THEN "assemble" ELSE "endstep"
    \/ pc = "endstep" /\ pc' = "loop"

FairSpec == Spec /\ WF_pc(Control)
(***************************************************************************)
(* Properties.                                                             *)
(***************************************************************************)
InLoop == pc \in {"loop", "assemble", "update", "endstep", "done"}
InStep == pc \in {"assemble", "update", "endstep"}

\* the step size the time-step controller gives for the state u at line 124
ControllerDt(rho, mom, ene) == QDiv(QMul(cfl, dx), max_speed(rho, mom, ene))

\* C1: in every step whose controller step size fits before Tf, the step
\* size dt in use equals cfl*dx/max_speed of the state at the step's start.
C1_DtFromCurrentState ==
    (InStep /\ QLeq(QAdd(t, ControllerDt(rho0, mom0, ene0)), Tf))
        => dt = ControllerDt(rho0, mom0, ene0)

\* Tf > 0 and a positive step size
PositiveRun == InLoop /\ QSign(Tf) > 0 /\ QSign(dt) > 0

\* C2: for Tf > 0 and dt > 0 the loop terminates: t <= Tf at the loop head,
\* a step that would pass Tf uses dt = Tf - t and lam = dt/dx, every step
\* adds dt > 0 to t, no step starts once t >= Tf, and the loop ends with
\* t = Tf.
C2_LoopTerminates ==
    /\ [](PositiveRun /\ pc = "loop" => QLeq(t, Tf))
    /\ [][PositiveRun /\ pc = "loop" /\ QLess(t, Tf)
                        /\ QLess(Tf, QAdd(t, dt))
            => /\ pc' = "assemble"
               /\ dt' = QSub(Tf, t)
               /\ lam' = QDiv(dt', dx)]_vars
    /\ [](PositiveRun /\ InStep => QLeq(QAdd(t, dt), Tf) /\ QLess(t, Tf))
    /\ [][PositiveRun /\ pc = "endstep"
            => /\ QLess(t, t')
               /\ QSub(t', t) = dt]_vars
    /\ [][PositiveRun /\ pc = "loop" /\ ~QLess(t, Tf)
            => pc' = "done" /\ t' = Tf]_vars
    /\ [](PositiveRun /\ pc = "done" => t = Tf)
    /\ (PositiveRun ~> (pc = "done" /\ t = Tf))

\* a run of several steps whose last step was clipped has ended
C2_Witness ==
    /\ PositiveRun /\ pc = "done" /\ it >= 2 /\ t = Tf
    /\ QLess(dt, QMul(cfl, dx))
\* the coefficients of SSPRK3 as the specification gives them
SpecA == <<Zero, Rat(3, 4), Rat(1, 3)>>
SpecB == <<One, Rat(1, 4), Rat(2, 3)>>

\* a*u0 + b*(u1 - (dt/dx)*res) for stage s (0-based), in every cell and mode
IsStageOf(new, s, u0, u1, res) ==
    /\ Len(new) = nc
    /\ \A i \in 1..nc : \A j \in 1..nd :
         new[i][j] = QAdd(QMul(SpecA[s + 1], u0[i][j]),
                          QMul(SpecB[s + 1],
                               QSub(u1[i][j],
                                    QMul(QDiv(dt, dx), res[i][j]))))

\* C3: a step is the three stages rk = 0, 1, 2 in order; u0 is the state at
\* the step's start and no stage changes it; each stage assembles the
\* residuals once, from the working state, and then sets every field to
\* a[rk]*u0 + b[rk]*(u1 - lam*res) with a = [0, 3/4, 1/3], b = [1, 1/4, 2/3]
\* and lam = dt/dx; the state after stage 2 is the state of the next step.
C3_ThreeStages ==
    /\ [][pc = "loop" /\ pc' # "done"
            => /\ pc' = "assemble" /\ rk' = 0 /\ nasm' = 0
               /\ rho0' = rho1 /\ mom0' = mom1 /\ ene0' = ene1
               /\ rho1' = rho1 /\ mom1' = mom1 /\ ene1' = ene1]_vars
    /\ [](pc = "assemble" => rk \in 0..2 /\ nasm = rk)
    /\ [](pc = "update" => /\ rk \in 0..2 /\ nasm = rk + 1
                           /\ resr = Assembled(1)
                           /\ resm = Assembled(2)
                           /\ rese = Assembled(3))
    /\ [](pc = "endstep" => rk = 3 /\ nasm = 3)
    /\ [][InStep => rho0' = rho0 /\ mom0' = mom0 /\ ene0' = ene0]_vars
    /\ [][pc = "assemble"
            => /\ pc' = "update" /\ rk' = rk
               /\ rho1' = rho1 /\ mom1' = mom1 /\ ene1' = ene1]_vars
    /\ [][pc = "update"
            => /\ rk' = rk + 1
               /\ pc' = IF rk = 2 THEN "endstep" ELSE "assemble"
               /\ IsStageOf(rho1', rk, rho0, rho1, resr)
               /\ IsStageOf(mom1', rk, mom0, mom1, resm)
               /\ IsStageOf(ene1', rk, ene0, ene1, rese)]_vars
    /\ [][pc = "endstep"
            => /\ pc' = "loop"
               /\ rho1' = rho1 /\ mom1' = mom1 /\ ene1' = ene1]_vars

\* a full step of a degree-1 run on several cells that changed the state
C3_Witness ==
    /\ pc = "endstep" /\ rk = 3 /\ k = 1 /\ nc >= 2 /\ it >= 1
    /\ rho1 # rho0 /\ mom1 # mom0 /\ ene1 # ene0
    /\ QSign(lam) > 0

\* the stages completed so far
StagesDone == IF InStep THEN 3 * it + rk ELSE 3 * it

\* C4: with -limit yes the limiter has been called once for every completed
\* stage, with -limit no it has never been called.
C4_LimiterOncePerStage ==
    /\ (args.limit = "yes" /\ InLoop) => limiterCalls = StagesDone
    /\ args.limit = "no" => limiterCalls = 0

BadConfig ==
    \/ args.degree < 0
    \/ args.ncell <= 0
    \/ QSign(args.cfl) <= 0
    \/ QSign(args.Tf) <= 0

\* C5: a configuration with a negative degree, a non-positive cell count,
\* CFL number or final time never gets past the set-up (no projection, no
\* time step), and no step runs with dt <= 0.
C5_BadConfigRejected ==
    /\ (pc # "parse" /\ BadConfig) => pc \in {"start", "project", "error"}
    /\ InStep => QSign(dt) > 0

\* C6: when all the residuals assembled in a step were zero, the working
\* state at the end of the step is the state at its start.
C6_ZeroResidualKeepsState ==
    (pc = "endstep" /\ zeroRes)
        => rho1 = rho0 /\ mom1 = mom0 /\ ene1 = ene0

\* a step with zero residuals and dt > 0 on a state that is not constant
C6_Witness ==
    /\ pc = "endstep" /\ zeroRes /\ QSign(lam) > 0
    /\ nc >= 2 /\ k = 1 /\ rho1[1] # rho1[nc]
    /\ \E i \in 1..nc : rho1[i][2] # Zero

RECURSIVE SumMode0(_, _)
SumMode0(res, n) ==
    IF n = 0 THEN Zero ELSE QAdd(SumMode0(res, n - 1), res[n][1])

\* C7: after an assembly the sum over the cells of the mode-0 residual of
\* each field is the flux of the last face minus the flux of the first face.
C7_Conservation ==
    pc = "update" =>
        /\ SumMode0(resr, nc) = QSub(f[nc + 1][1], f[1][1])
        /\ SumMode0(resm, nc) = QSub(f[nc + 1][2], f[1][2])
        /\ SumMode0(rese, nc) = QSub(f[nc + 1][3], f[1][3])

\* an assembly on three cells whose interior fluxes are not zero and differ
C7_Witness ==
    /\ pc = "update" /\ nc = 3 /\ k = 1 /\ it >= 1
    /\ f[2][1] # Zero /\ f[3][1] # Zero /\ f[2] # f[3]
    /\ f[1] # f[4]
    /\ SumMode0(resm, nc) # Zero

ConstantState(u, c) ==
    \A i \in 1..nc : u[i][1] = c /\ \A j \in 2..nd : u[i][j] = Zero

Consistent == sod.numflux \in {"zero", "rusanov"}

\* C8: with degree 0, a constant initial state and a consistent numerical
\* flux every assembled residual is zero and every cell keeps the initial
\* state (1, 0, 5/2) through all steps.
C8_ConstantStateDegree0 ==
    (k = 0 /\ sod.ic = "constant" /\ Consistent
        /\ pc \in {"inittime", "loop", "assemble", "update", "endstep", "done"})
    => /\ ConstantState(rho1, One)
       /\ ConstantState(mom1, Zero)
       /\ ConstantState(ene1, Rat(5, 2))
       /\ (pc \in {"update", "endstep"}
             => AllZero(resr) /\ AllZero(resm) /\ AllZero(rese))

\* several steps on several cells with a flux that is not zero
C8_Witness ==
    /\ k = 0 /\ sod.ic = "constant" /\ sod.numflux = "rusanov"
    /\ pc = "done" /\ it >= 2 /\ nc >= 2 /\ QSign(lam) > 0
    /\ f[1][2] # Zero

\* C9: the first face takes the state of the first cell at its left edge
\* (row Vu[0]) on both sides and subtracts flux*Vu[0] from cell 0; the last
\* face takes the state of the last cell at its right edge (row Vu[-1]) on
\* both sides and adds flux*Vu[-1] to cell nc-1.
C9_BoundaryFaces ==
    pc = "update" =>
        /\ f[1] = numflux(EdgeState(1, 1), EdgeState(1, 1))
        /\ f[nc + 1] = numflux(EdgeState(nc, nu), EdgeState(nc, nu))
        /\ \A c \in 1..3 : \A j \in 1..nd :
             /\ Assembled(c)[1][j] =
                  QAdd(QAdd(VolumeTerm(1, j, c),
                            QNeg(QMul(f[1][c], Vu[1][j]))),
                       IF nc = 1 THEN QMul(f[2][c], Vu[nu][j])
                       ELSE LeftCellTerm(f[2], j, c))
             /\ Assembled(c)[nc][j] =
                  QAdd(QAdd(VolumeTerm(nc, j, c),
                            QMul(f[nc + 1][c], Vu[nu][j])),
                       IF nc = 1 THEN QNeg(QMul(f[1][c], Vu[1][j]))
                       ELSE RightCellTerm(f[nc], j, c))

\* C10: with degree >= 1, a constant state in every cell and a consistent
\* numerical flux every assembled residual is zero, and the state is
\* unchanged after the step.
C10_FreeStream ==
    (k >= 1 /\ sod.ic = "constant" /\ Consistent)
    => /\ (pc = "update" /\ rk = 0
             => AllZero(resr) /\ AllZero(resm) /\ AllZero(rese))
       /\ (pc = "endstep"
             => rho1 = rho0 /\ mom1 = mom0 /\ ene1 = ene0)
====
